---- MODULE Spec2Model ----
(***************************************************************************)
(* Lockstep server (server/main.py, server/frame_sync/frame_manager.py)    *)
(* and client frame executor (client/frame_sync/frame_executor.py,         *)
(* client/frame_sync/logical_input_manager.py) of Multi-Player-Tank-War.   *)
(*                                                                         *)
(* Time is in milliseconds.  The executor's accumulator is kept in thirds  *)
(* of a millisecond so that the frame interval 1000 / LOGIC_TICK_RATE is   *)
(* the integer 100.                                                        *)
(***************************************************************************)
EXTENDS Integers, Sequences, FiniteSets, TLC

\* ---------------------------------------------------------------- bounds
NumSockets == 2          \* websocket slots that may be connected at once
MaxIds == 3              \* connections accepted over a run (uuid4 values)
MaxNow == 1900           \* the clock stops at this time
MaxInputs == 2           \* inputs staged or kept in the turn table

\* ------------------------------------------------------ program constants
LOGIC_TICK_RATE == 30
TURN_SIZE == 5
START_DELAY_MS == 500
MAX_FRAMES_PER_UPDATE == 10
EPOCH == 1000

WS == 1..NumSockets
ClientIds == 1..MaxIds
NoClient == 0
REJECT_REASON == "Game already in progress"

\* time.sleep / scheduling delays between two iterations of game_loop
SleepSteps == {170, 500}

\* raw inputs a client may send; the first is the empty input
EmptyInput == [movement |-> "stop", shoot |-> FALSE]
RawInputs == {EmptyInput,
              [movement |-> "right", shoot |-> FALSE],
              [movement |-> "stop", shoot |-> TRUE]}

\* frame lists a client may put into request_frames
RequestLists == {<<0>>, <<5>>, <<5, 10>>}

VARIABLES
  now,               \* wall clock, ms
  required_players,  \* GameServer.required_players
  clients,           \* GameServer.clients: websocket -> client_id (0: absent)
  client_details,    \* GameServer.client_details: client_id -> [ready]
  connection_phase,  \* GameServer.connection_phase
  frame_manager,     \* GameServer.frame_manager (a FrameManager)
  handler,           \* position of handle_client for each websocket
  handler_id,        \* local client_id of handle_client for each websocket
  next_id,           \* next uuid4 value
  close_reason,      \* history: websocket -> reason the server closed it with
  ready_announced,   \* history: game_ready broadcasts since the last reset
  anchor,            \* history: websocket -> start_time last sent to it
  greeted,           \* history: websocket -> welcomes and first message sent
  sent_frames,       \* history: frame -> input_frame broadcast in this game
  accepted,          \* history: client_id -> inputs staged in this game
  executor,          \* a client's FrameExecutor
  client_out,        \* the request_frames the executor sent last
  executor2,         \* the FrameExecutor of a second client instance
  inputs_lists,      \* two per-turn input lists given to merge_inputs
  logical_inputs,    \* tables of a LogicalInputManager the lists went into
  broadcasting,      \* the broadcast of game_loop suspended in a send
  received,          \* history: the last message of no handled type taken
  room,              \* a Room (server/room.py)
  session,           \* the GameSession of the room (server/session.py)
  called,            \* history: the last method called on room or session
  stream,            \* the messages sent on a TCP stream and where it ends
  server_reader,     \* NetworkServer._handle_client reading the stream
  client_reader,     \* NetworkClient._receive_loop reading the stream
  runs,              \* two runs of the simulation: run -> [tank, bullet]
  clocks             \* the wall clock of each run, ms

serverVars == <<required_players, clients, client_details, connection_phase,
                frame_manager, handler, handler_id, next_id>>

historyVars == <<close_reason, ready_announced, anchor, sent_frames, accepted,
                 greeted>>

mergeVars == <<inputs_lists, logical_inputs>>

clientVars == <<executor, client_out, executor2, mergeVars>>

lobbyVars == <<room, session, called>>

netVars == <<stream, server_reader, client_reader>>

simVars == <<runs, clocks>>

sideVars == <<lobbyVars, netVars, simVars>>

mainVars == <<now, serverVars, historyVars, clientVars, broadcasting, received>>

sessionVars == <<broadcasting, received, sideVars>>

vars == <<now, serverVars, historyVars, sessionVars, clientVars>>

\* ---------------------------------------------------------------- helpers
Put(f, k, v) == [x \in (DOMAIN f) \cup {k} |-> IF x = k THEN v ELSE f[x]]

Drop(f, k) == [x \in (DOMAIN f) \ {k} |-> f[x]]

EmptyMap == [x \in {} |-> 0]

Max(a, b) == IF a >= b THEN a ELSE b

\* str(frame) and int(frame_num_str) of the frame_response keys
str_of(n) == <<"str", n>>

int_of(s) == s[2]

\* ------------------------------------------------------------ FrameManager
NewFrameManager ==
  [current_frame |-> 0, turn_size |-> TURN_SIZE, clients |-> {},
   input_buffer |-> EmptyMap, input_history |-> EmptyMap,
   ready_clients |-> {}, game_started |-> FALSE, game_start_time |-> 0,
   last_broadcast_frame |-> -1, last_processed_turn |-> -1]

add_client(fm, client_id) == [fm EXCEPT !.clients = @ \cup {client_id}]

remove_client(fm, client_id) ==
  [fm EXCEPT !.clients = @ \ {client_id},
             !.input_buffer = Drop(@, client_id),
             !.ready_clients = @ \ {client_id}]

is_input_empty(inputs) ==
  inputs.movement = "stop" /\ ~inputs.shoot

\* receive_input that stores the input in place of the staged list
receive_input_replacing(fm, client_id, inputs) ==
  IF is_input_empty(inputs) THEN fm
  ELSE [fm EXCEPT !.input_buffer = Put(@, client_id, <<inputs>>)]

\* receive_input that puts the input in front of the staged list
receive_input_prepending(fm, client_id, inputs) ==
  IF is_input_empty(inputs) THEN fm
  ELSE [fm EXCEPT !.input_buffer =
          Put(@, client_id,
              <<inputs>>
                \o (IF client_id \in DOMAIN @ THEN @[client_id] ELSE <<>>))]

receive_input(fm, client_id, inputs) ==
  IF is_input_empty(inputs) THEN fm
  ELSE [fm EXCEPT !.input_buffer =
          Put(@, client_id,
              (IF client_id \in DOMAIN @ THEN @[client_id] ELSE <<>>)
                \o <<inputs>>)]

\* the row process_inputs_for_turn writes: the old row of the turn (if any)
\* with the non-empty staged lists copied over it
MovedRow(fm, turn_id) ==
  LET old == IF turn_id \in DOMAIN fm.input_history
             THEN fm.input_history[turn_id] ELSE EmptyMap
      moved == {c \in DOMAIN fm.input_buffer : fm.input_buffer[c] /= <<>>}
  IN [c \in (DOMAIN old) \cup moved |->
        IF c \in moved THEN fm.input_buffer[c] ELSE old[c]]

process_inputs_for_turn(fm, turn_id) ==
  IF turn_id <= fm.last_processed_turn THEN fm
  ELSE LET moved == {c \in DOMAIN fm.input_buffer : fm.input_buffer[c] /= <<>>}
       IN [fm EXCEPT
             !.input_history = IF moved = {} THEN @
                               ELSE Put(@, turn_id, MovedRow(fm, turn_id)),
             !.input_buffer = EmptyMap,
             !.last_processed_turn = turn_id]

\* mark_client_ready returns (the new manager, all_ready)
mark_client_ready(fm, client_id) ==
  LET fm2 == [fm EXCEPT !.ready_clients = @ \cup {client_id}]
  IN [fm |-> fm2,
      all_ready |-> Cardinality(fm2.ready_clients) = Cardinality(fm2.clients)]

start_game(fm, delay_ms) ==
  LET old == IF 0 \in DOMAIN fm.input_history
             THEN fm.input_history[0] ELSE EmptyMap
      row0 == [c \in (DOMAIN old) \cup fm.clients |->
                 IF c \in DOMAIN old THEN old[c] ELSE <<>>]
  IN [fm EXCEPT !.game_started = TRUE,
                !.game_start_time = now + delay_ms,
                !.input_history = IF fm.clients = {} THEN @
                                  ELSE Put(@, 0, row0)]

get_client_inputs_for_turn(fm, turn_id) ==
  [c \in fm.clients |->
     IF turn_id \in DOMAIN fm.input_history
        /\ c \in DOMAIN fm.input_history[turn_id]
     THEN fm.input_history[turn_id][c]
     ELSE <<>>]

\* prepare_input_broadcast that announces the frame of the turn before
prepare_input_broadcast_previous(fm) ==
  LET current_turn == fm.current_frame \div fm.turn_size
      current_frame == (current_turn - 1) * fm.turn_size
  IN [fm |-> [fm EXCEPT !.last_broadcast_frame = current_frame],
      msg |-> [type |-> "input_frame",
               current_frame |-> current_frame,
               inputs |-> get_client_inputs_for_turn(fm, current_turn)]]

\* prepare_input_broadcast returns (the new manager, the message)
prepare_input_broadcast(fm) ==
  LET current_turn == fm.current_frame \div fm.turn_size
      current_frame == current_turn * fm.turn_size
  IN [fm |-> [fm EXCEPT !.last_broadcast_frame = current_frame],
      msg |-> [type |-> "input_frame",
               current_frame |-> current_frame,
               inputs |-> get_client_inputs_for_turn(fm, current_turn)]]

collect_inputs_for_frame(fm, frame) ==
  LET turn == frame \div fm.turn_size
  IN [k \in {str_of(frame)} |-> get_client_inputs_for_turn(fm, turn)]

\* ---------------------------------------------------------------- GameServer
Connected == {w \in WS : clients[w] /= NoClient}

ConnectedIds == {clients[w] : w \in Connected}

\* broadcast: the websockets the message is sent to
\* broadcast that stops after the first websocket of the registry
broadcast_first_only(cl) ==
  {w \in WS : cl[w] /= NoClient /\ \A x \in WS : x < w => cl[x] = NoClient}

broadcast(cl) == {w \in WS : cl[w] /= NoClient}

TotalInputs(fm) ==
  LET RECURSIVE SumLen(_, _)
      SumLen(f, S) == IF S = {} THEN 0
                      ELSE LET c == CHOOSE x \in S : TRUE
                           IN Len(f[c]) + SumLen(f, S \ {c})
      RECURSIVE SumRows(_)
      SumRows(T) == IF T = {} THEN 0
                    ELSE LET t == CHOOSE x \in T : TRUE
                         IN SumLen(fm.input_history[t],
                                   DOMAIN fm.input_history[t])
                            + SumRows(T \ {t})
  IN SumLen(fm.input_buffer, DOMAIN fm.input_buffer)
     + SumRows(DOMAIN fm.input_history)

\* no broadcast of game_loop is in progress
NoBroadcast ==
  [active |-> FALSE, crashed |-> FALSE, pending |-> {}, last |-> NoClient,
   size |-> 0, left |-> 0, at_start |-> {}, sent |-> {}, failed |-> {}]

\* no message of another type was taken yet
NoMessage ==
  [count |-> 0, client_id |-> NoClient, kind |-> "", ready |-> FALSE]

\* ------------------------------------------------------ LogicalInputManager
default_input == [movement |-> "stop", shoot |-> FALSE]

RECURSIVE MergeFold(_, _)
MergeFold(merged_input, inputs_list) ==
  IF inputs_list = <<>> THEN merged_input
  ELSE LET input_data == Head(inputs_list)
           m1 == IF input_data.movement /= "stop"
                 THEN [merged_input EXCEPT !.movement = input_data.movement]
                 ELSE merged_input
           m2 == IF input_data.shoot THEN [m1 EXCEPT !.shoot = TRUE] ELSE m1
       IN MergeFold(m2, Tail(inputs_list))

\* merge_inputs that stores the last input of the list
merge_inputs_last_only(client_inputs, client_id, inputs_list) ==
  IF inputs_list = <<>> THEN client_inputs
  ELSE Put(client_inputs, client_id, inputs_list[Len(inputs_list)])

\* merge_inputs that takes the movement of the last input, stop or not
merge_inputs_last_movement(client_inputs, client_id, inputs_list) ==
  IF inputs_list = <<>> THEN client_inputs
  ELSE Put(client_inputs, client_id,
           [movement |-> inputs_list[Len(inputs_list)].movement,
            shoot |-> MergeFold(default_input, inputs_list).shoot])

\* merge_inputs that takes the shoot flag of the last input
merge_inputs_last_shoot(client_inputs, client_id, inputs_list) ==
  IF inputs_list = <<>> THEN client_inputs
  ELSE Put(client_inputs, client_id,
           [movement |-> MergeFold(default_input, inputs_list).movement,
            shoot |-> inputs_list[Len(inputs_list)].shoot])

\* merge_inputs on the table client_inputs
merge_inputs(client_inputs, client_id, inputs_list) ==
  IF inputs_list = <<>> THEN client_inputs
  ELSE Put(client_inputs, client_id, MergeFold(default_input, inputs_list))

set_input_frame(client_inputs, input_frame_data) ==
  LET RECURSIVE Each(_, _)
      Each(ci, S) == IF S = {} THEN ci
                     ELSE LET c == CHOOSE x \in S : TRUE
                          IN Each(merge_inputs(ci, c, input_frame_data[c]),
                                  S \ {c})
  IN Each(client_inputs, DOMAIN input_frame_data)

set_non_input == EmptyMap

get_client_input(client_inputs, client_id) ==
  IF client_id \in DOMAIN client_inputs THEN client_inputs[client_id]
  ELSE default_input

\* the tables of the LogicalInputManager instances the lists of
\* inputs_lists are installed in (done: the installations made)
NoTables ==
  [done |-> {}, concat |-> EmptyMap, appended |-> EmptyMap, pair |-> EmptyMap]

\* ------------------------------------------------------------ FrameExecutor
\* logic_frame_interval = 1000 / LOGIC_TICK_RATE ms, in thirds of a ms
FrameInterval3 == 3000 \div LOGIC_TICK_RATE

NewExecutor ==
  [current_frame |-> 0, turn_size |-> TURN_SIZE, input_buffer |-> EmptyMap,
   waiting_for_input |-> FALSE, last_executed_turn |-> -1,
   latest_received_frame |-> -1, missing_frames |-> <<>>,
   game_start_time |-> 0, logic_accumulator |-> 0, last_update_time |-> 0,
   client_inputs |-> EmptyMap, steps |-> <<>>]

\* game_client.update_game_state(): the simulation step of the current
\* frame, which reads the logical inputs.  steps is the history of the
\* steps taken: the frame, the table of logical inputs it saw and the row
\* input_buffer held for the frame at that moment (none: the empty map).
update_game_state(fe) ==
  [fe EXCEPT !.steps =
     Append(@, [frame |-> fe.current_frame,
                inputs |-> fe.client_inputs,
                row |-> IF fe.current_frame \in DOMAIN fe.input_buffer
                        THEN fe.input_buffer[fe.current_frame]
                        ELSE EmptyMap])]

set_start_time(fe, start_time) ==
  [fe EXCEPT !.game_start_time = start_time,
             !.last_update_time = start_time,
             !.logic_accumulator = 0]

\* lines 66-72 of add_input_frame: forget the missing frames that arrived
PruneMissing(fe) ==
  IF fe.missing_frames = <<>> THEN fe
  ELSE LET left == SelectSeq(fe.missing_frames,
                             LAMBDA f : f \notin DOMAIN fe.input_buffer)
       IN [fe EXCEPT !.missing_frames = left,
                     !.waiting_for_input =
                        IF left = <<>> /\ @ THEN FALSE ELSE @]

\* add_input_frame(frame, inputs) with an int frame (an input_frame message)
add_input_frame(fe, frame, inputs) ==
  PruneMissing([fe EXCEPT
     !.input_buffer = Put(@, frame, inputs),
     !.latest_received_frame = Max(@, frame)])

\* add_input_frame(None, frames) with string keys (a frame_response message)
add_input_frames(fe, frames) ==
  LET nums == {int_of(k) : k \in DOMAIN frames}
      MaxOf(S) == CHOOSE x \in S : \A y \in S : y <= x
  IN PruneMissing([fe EXCEPT
       !.input_buffer =
          [f \in (DOMAIN @) \cup nums |->
             IF f \in nums THEN frames[str_of(f)] ELSE @[f]],
       !.latest_received_frame =
          IF nums = {} THEN @ ELSE Max(@, MaxOf(nums))])

\* execute_frame that leaves the logical inputs alone on a non-input frame
execute_frame_keeping_inputs(fe) ==
  LET is_input_frame == fe.current_frame /= 0
                        /\ fe.current_frame % fe.turn_size = 0
  IN IF is_input_frame
     THEN IF fe.current_frame \in DOMAIN fe.input_buffer
          THEN [fe |-> [update_game_state([fe EXCEPT
                   !.client_inputs =
                      set_input_frame(@, fe.input_buffer[fe.current_frame])])
                   EXCEPT
                   !.current_frame = @ + 1,
                   !.waiting_for_input = FALSE],
                ok |-> TRUE, request |-> <<>>]
          ELSE [fe |-> [fe EXCEPT !.waiting_for_input = TRUE],
                ok |-> FALSE, request |-> <<>>]
     ELSE [fe |-> [update_game_state(fe) EXCEPT !.current_frame = @ + 1],
           ok |-> TRUE, request |-> <<>>]

\* execute_frame that counts a non-input frame twice
execute_frame_double_step(fe) ==
  LET is_input_frame == fe.current_frame /= 0
                        /\ fe.current_frame % fe.turn_size = 0
  IN IF is_input_frame
     THEN IF fe.current_frame \in DOMAIN fe.input_buffer
          THEN [fe |-> [update_game_state([fe EXCEPT
                   !.client_inputs =
                      set_input_frame(@, fe.input_buffer[fe.current_frame])])
                   EXCEPT
                   !.current_frame = @ + 1,
                   !.waiting_for_input = FALSE],
                ok |-> TRUE, request |-> <<>>]
          ELSE [fe |-> [fe EXCEPT !.waiting_for_input = TRUE],
                ok |-> FALSE, request |-> <<>>]
     ELSE [fe |-> [update_game_state(
                      [fe EXCEPT !.client_inputs = set_non_input])
                   EXCEPT !.current_frame = @ + 2],
           ok |-> TRUE, request |-> <<>>]

\* execute_frame without the input_buffer test on an input frame
execute_frame_ungated(fe) ==
  [fe |-> [update_game_state([fe EXCEPT
      !.client_inputs =
         IF fe.current_frame \in DOMAIN fe.input_buffer
         THEN set_input_frame(@, fe.input_buffer[fe.current_frame])
         ELSE set_non_input]) EXCEPT
      !.current_frame = @ + 1,
      !.waiting_for_input = FALSE],
   ok |-> TRUE, request |-> <<>>]

\* execute_frame returns (the new executor, whether a frame was executed)
execute_frame(fe) ==
  LET is_input_frame == fe.current_frame /= 0
                        /\ fe.current_frame % fe.turn_size = 0
  IN IF is_input_frame
     THEN IF fe.current_frame \in DOMAIN fe.input_buffer
          THEN [fe |-> [update_game_state([fe EXCEPT
                   !.client_inputs =
                      set_input_frame(@, fe.input_buffer[fe.current_frame])])
                   EXCEPT
                   !.current_frame = @ + 1,
                   !.waiting_for_input = FALSE],
                ok |-> TRUE, request |-> <<>>]
          ELSE [fe |-> [fe EXCEPT !.waiting_for_input = TRUE],
                ok |-> FALSE, request |-> <<>>]
     ELSE [fe |-> [update_game_state(
                      [fe EXCEPT !.client_inputs = set_non_input])
                   EXCEPT !.current_frame = @ + 1],
           ok |-> TRUE, request |-> <<>>]

\* the frames execute_catch_up finds missing, in increasing order
RECURSIVE NeededFrom(_, _)
NeededFrom(fe, frame) ==
  IF frame > fe.latest_received_frame THEN <<>>
  ELSE (IF frame % fe.turn_size = 0 /\ frame \notin DOMAIN fe.input_buffer
        THEN <<frame>> ELSE <<>>) \o NeededFrom(fe, frame + 1)

execute_catch_up(fe) ==
  LET needed_frames == NeededFrom(fe, fe.current_frame)
  IN IF needed_frames /= <<>>
     THEN [fe |-> [fe EXCEPT !.missing_frames = needed_frames,
                             !.waiting_for_input = TRUE],
           ok |-> FALSE, request |-> needed_frames]
     ELSE execute_frame(fe)

\* the while loop of execute_logic_frame.  round_up: the float comparison
\* accumulator >= 33.333333333333336 when the accumulator is one interval
\* up to rounding
RECURSIVE LogicLoop(_, _, _)
LogicLoop(fe, frames_executed, round_up) ==
  IF ~(fe.logic_accumulator > FrameInterval3
       \/ (fe.logic_accumulator = FrameInterval3 /\ round_up))
  THEN [fe |-> fe, request |-> <<>>]
  ELSE LET r == IF fe.latest_received_frame > fe.current_frame
                THEN execute_catch_up(fe) ELSE execute_frame(fe)
       IN IF ~r.ok THEN [fe |-> r.fe, request |-> r.request]
          ELSE LET fe2 == [r.fe EXCEPT !.logic_accumulator = @ - FrameInterval3]
               IN IF frames_executed + 1 > MAX_FRAMES_PER_UPDATE
                  THEN [fe |-> fe2, request |-> <<>>]
                  ELSE LogicLoop(fe2, frames_executed + 1, round_up)

\* execute_logic_frame that leaves last_update_time where it was
execute_logic_frame_recounting(fe, current_time, round_up) ==
  IF current_time < fe.game_start_time THEN [fe |-> fe, request |-> <<>>]
  ELSE IF fe.last_update_time = 0
  THEN [fe |-> [fe EXCEPT !.last_update_time = fe.game_start_time],
        request |-> <<>>]
  ELSE LET delta_time == current_time - fe.last_update_time
       IN LogicLoop([fe EXCEPT !.logic_accumulator = @ + 3 * delta_time],
                    0, round_up)

execute_logic_frame(fe, current_time, round_up) ==
  IF current_time < fe.game_start_time THEN [fe |-> fe, request |-> <<>>]
  ELSE IF fe.last_update_time = 0
  THEN [fe |-> [fe EXCEPT !.last_update_time = fe.game_start_time],
        request |-> <<>>]
  ELSE LET delta_time == current_time - fe.last_update_time
       IN LogicLoop([fe EXCEPT !.last_update_time = current_time,
                               !.logic_accumulator = @ + 3 * delta_time],
                    0, round_up)

\* ------------------------------------------------------- Room, GameSession
MAX_CLIENTS == 4

\* Room.__init__; session: whether a GameSession is attached
NewRoom == [clients |-> <<>>, status |-> "waiting", session |-> FALSE]

\* GameSession.__init__; players: client_id -> [index, ready]
NewGameSession == [players |-> EmptyMap, status |-> "waiting", room |-> FALSE]

NoCall == [method |-> "", client_id |-> NoClient]

SeqRemove(q, x) == SelectSeq(q, LAMBDA y : y /= x)

InSeq(q, x) == \E i \in 1 .. Len(q) : q[i] = x

\* GameSession.client_joined
GameSession_client_joined(s, client_id) ==
  IF s.status = "running" THEN s
  ELSE IF client_id \in DOMAIN s.players THEN s
  ELSE LET player_index == Cardinality(DOMAIN s.players)
       IN [s EXCEPT !.players =
             Put(@, client_id, [index |-> player_index, ready |-> FALSE])]

\* GameSession.end_game
GameSession_end_game(s) ==
  IF s.status /= "running" THEN s ELSE [s EXCEPT !.status = "ended"]

\* GameSession.client_left
GameSession_client_left(s, client_id) ==
  IF client_id \notin DOMAIN s.players THEN s
  ELSE LET s1 == [s EXCEPT !.players = Drop(@, client_id)]
       IN IF s1.status = "running" /\ DOMAIN s1.players = {}
          THEN GameSession_end_game(s1) ELSE s1

\* GameSession.start_game returns (the session, success)
GameSession_start_game(s) ==
  IF DOMAIN s.players = {} THEN [session |-> s, success |-> FALSE]
  ELSE IF ~s.room THEN [session |-> s, success |-> FALSE]
  ELSE IF s.status = "running" THEN [session |-> s, success |-> FALSE]
  ELSE [session |-> [s EXCEPT !.status = "running"], success |-> TRUE]

\* GameSession.reset
GameSession_reset(s) ==
  [s EXCEPT !.status = "waiting",
            !.players = [c \in DOMAIN @ |-> [@[c] EXCEPT !.ready = FALSE]]]

\* Room.reset
Room_reset(r) == [r EXCEPT !.status = "waiting"]

\* Room.start_game on the room and its session
Room_start_game(r, s) ==
  IF r.clients = <<>> THEN [room |-> r, session |-> s]
  ELSE IF ~r.session THEN [room |-> r, session |-> s]
  ELSE IF r.status /= "waiting" THEN [room |-> r, session |-> s]
  ELSE LET g == GameSession_start_game(s)
       IN [room |-> [r EXCEPT !.status = IF g.success THEN "running"
                                         ELSE "waiting"],
           session |-> g.session]

\* GameSession.set_player_ready
GameSession_set_player_ready(r, s, client_id, ready) ==
  IF client_id \notin DOMAIN s.players THEN [room |-> r, session |-> s]
  ELSE LET s1 == [s EXCEPT !.players[client_id].ready = ready]
           all_ready == \A c \in DOMAIN s1.players : s1.players[c].ready
       IN IF all_ready /\ s1.status = "waiting" /\ s1.room
          THEN Room_start_game(r, s1)
          ELSE [room |-> r, session |-> s1]

\* Room.add_client
Room_add_client(r, s, client_id) ==
  IF InSeq(r.clients, client_id) THEN [room |-> r, session |-> s]
  ELSE IF Len(r.clients) >= MAX_CLIENTS THEN [room |-> r, session |-> s]
  ELSE IF r.status \notin {"waiting", "starting"}
  THEN [room |-> r, session |-> s]
  ELSE [room |-> [r EXCEPT !.clients = Append(@, client_id)],
        session |-> IF r.session THEN GameSession_client_joined(s, client_id)
                    ELSE s]

\* Room.remove_client
Room_remove_client(r, s, client_id) ==
  IF ~InSeq(r.clients, client_id) THEN [room |-> r, session |-> s]
  ELSE LET r1 == [r EXCEPT !.clients = SeqRemove(@, client_id)]
           s1 == IF r.session THEN GameSession_client_left(s, client_id) ELSE s
       IN [room |-> IF r1.clients = <<>> THEN Room_reset(r1) ELSE r1,
           session |-> s1]

\* Room.set_session with a GameSession (GameSession.set_room)
Room_set_session(r, s) ==
  [room |-> [r EXCEPT !.session = TRUE], session |-> [s EXCEPT !.room = TRUE]]

\* Room.end_game
Room_end_game(r, s) ==
  IF r.status /= "running" THEN [room |-> r, session |-> s]
  ELSE [room |-> [r EXCEPT !.status = "ended"],
        session |-> IF r.session THEN GameSession_end_game(s) ELSE s]

\* ------------------------------------------------- length-prefixed stream
\* The messages of the stream. The JSON text of a message is abbreviated to
\* a short byte string, a different one for each message.
ConnectMessage == [type |-> "connect", client_id |-> 1]

InputFrameMessage == [type |-> "input_frame", client_id |-> 1, frame |-> 0]

DisconnectMessage == [type |-> "disconnect"]

Messages == {ConnectMessage, InputFrameMessage, DisconnectMessage}

\* json.dumps(message).encode('utf-8')
json_dumps(message) ==
  IF message = ConnectMessage THEN <<99>>
  ELSE IF message = InputFrameMessage THEN <<105, 102>>
  ELSE <<100>>

\* json.loads(data.decode('utf-8')): the message, or JSONDecodeError
json_loads(data) ==
  IF \E m \in Messages : json_dumps(m) = data
  THEN [ok |-> TRUE, message |-> CHOOSE m \in Messages : json_dumps(m) = data]
  ELSE [ok |-> FALSE, message |-> [type |-> "JSONDecodeError"]]

\* struct.pack('!I', n), n.to_bytes(4, byteorder='big')
struct_pack(n) ==
  <<(n \div 16777216) % 256, (n \div 65536) % 256, (n \div 256) % 256,
    n % 256>>

\* a length read with the least significant byte first
struct_unpack_little_endian(b) ==
  b[1] + b[2] * 256 + b[3] * 65536 + b[4] * 16777216

\* struct.unpack('!I', b)[0], int.from_bytes(b, byteorder='big')
struct_unpack(b) ==
  b[1] * 16777216 + b[2] * 65536 + b[3] * 256 + b[4]

\* NetworkProtocol.pack_message, the bytes _send_loop writes
pack_message(message) ==
  struct_pack(Len(json_dumps(message))) \o json_dumps(message)

\* NetworkProtocol.unpack_message
unpack_message(data) ==
  LET msg_len == struct_unpack(SubSeq(data, 1, 4))
      end == IF 4 + msg_len < Len(data) THEN 4 + msg_len ELSE Len(data)
  IN json_loads(SubSeq(data, 5, end)).message

RECURSIVE PackAll(_)
PackAll(messages) ==
  IF messages = <<>> THEN <<>>
  ELSE pack_message(Head(messages)) \o PackAll(Tail(messages))

\* the bytes the peer receives before the stream ends
Wire(st) == SubSeq(PackAll(st.sent), 1, st.cut)

NoStream == [sent |-> <<>>, cut |-> 0]

\* _handle_client, lines 225-226 and the first pass to line 234
NewServerReader ==
  [pos |-> 0, buffer |-> <<>>, stage |-> "header", msg_len |-> 0,
   client_id |-> NoClient, message_queue |-> <<>>, closed |-> FALSE,
   error |-> ""]

\* _handle_client, lines 232-281: from the buffer it has, the loop takes
\* messages until it needs another recv
RECURSIVE ServerLoop(_)
ServerLoop(r) ==
  IF r.stage = "header"
  THEN IF Len(r.buffer) < 4 THEN r
       ELSE ServerLoop([r EXCEPT
                          !.msg_len = struct_unpack(SubSeq(r.buffer, 1, 4)),
                          !.buffer = SubSeq(r.buffer, 5, Len(r.buffer)),
                          !.stage = "body"])
  ELSE IF Len(r.buffer) < r.msg_len THEN r
  ELSE LET msg_data == SubSeq(r.buffer, 1, r.msg_len)
           rest == SubSeq(r.buffer, r.msg_len + 1, Len(r.buffer))
           d == json_loads(msg_data)
           message == d.message
           client_id ==
             IF ~d.ok THEN r.client_id
             ELSE IF message.type = "connect"
             THEN IF "client_id" \in DOMAIN message
                  THEN message.client_id ELSE NoClient
             ELSE IF "client_id" \in DOMAIN message THEN message.client_id
             ELSE r.client_id
       IN ServerLoop([r EXCEPT
                        !.buffer = rest,
                        !.stage = "header",
                        !.client_id = client_id,
                        !.message_queue =
                           IF d.ok /\ client_id /= NoClient
                           THEN Append(@, <<client_id, message>>) ELSE @])

\* _receive_loop inside its first _receive_exactly(4)
NewClientReader ==
  [pos |-> 0, stage |-> "length", data |-> <<>>, remaining |-> 4,
   receive_queue |-> <<>>, connected |-> TRUE]

\* _receive_loop, lines 196-221, when a _receive_exactly returned its bytes
ClientGot(c) ==
  IF c.stage = "length"
  THEN LET message_length == struct_unpack(c.data)
       IN IF message_length = 0
          THEN [c EXCEPT !.data = <<>>, !.connected = FALSE]
          ELSE [c EXCEPT !.stage = "body", !.data = <<>>,
                         !.remaining = message_length]
  ELSE LET d == json_loads(c.data)
       IN [c EXCEPT !.stage = "length", !.data = <<>>, !.remaining = 4,
                    !.receive_queue =
                       IF d.ok THEN Append(@, d.message) ELSE @]

\* ------------------------------------------------------- Tank and Bullet
\* One tank and one bullet of another tank flying towards it, in two runs of
\* the same game. Sizes are in units in which all rectangles are integers.
Runs == {"a", "b"}

explosion_duration == 1000

hit_flash_duration == 1000

flash_interval == 100

\* the values of common/constants.py the scene uses
Scene ==
  [SCREEN_WIDTH |-> 12, SCREEN_HEIGHT |-> 6, BULLET_RADIUS |-> 1,
   BULLET_SPEED |-> 2, BULLET_DAMAGE |-> 1, TANK_WIDTH |-> 2,
   TANK_HEIGHT |-> 2]

\* BULLET_LIFETIME * 1000, ms
BulletLifetimes == {1000, 2000}

\* Tank.__init__ at (8, 3) with the given TANK_HEALTH
NewTank(health) ==
  [tank_id |-> "tank2", x |-> 8, y |-> 3,
   rect |-> <<8 - Scene.TANK_WIDTH \div 2, 3 - Scene.TANK_HEIGHT \div 2,
              Scene.TANK_WIDTH, Scene.TANK_HEIGHT>>,
   health |-> health, max_health |-> health,
   hit_time |-> 0, hit_flash_duration |-> hit_flash_duration,
   is_hit |-> FALSE, alpha |-> 255, last_flash_time |-> 0,
   flash_state |-> FALSE, is_exploding |-> FALSE,
   explosion_start_time |-> 0, is_destroyed |-> FALSE]

\* Bullet.__init__((1, 3), 0, "tank1") at tick current_time
NewBullet(current_time, lifetime) ==
  [x |-> 1, y |-> 3, owner_id |-> "tank1", damage |-> Scene.BULLET_DAMAGE,
   radius |-> Scene.BULLET_RADIUS, active |-> TRUE,
   creation_time |-> current_time, lifetime |-> lifetime,
   velocity |-> <<Scene.BULLET_SPEED, 0>>,
   rect |-> <<1 - Scene.BULLET_RADIUS, 3 - Scene.BULLET_RADIUS,
              Scene.BULLET_RADIUS * 2, Scene.BULLET_RADIUS * 2>>]

NewRun(health) ==
  [tank |-> NewTank(health), bullet |-> NewBullet(0, 1000)]

\* DeterministicPhysics.check_collision
check_collision(rect1, rect2) ==
  ~ \/ rect1[1] >= rect2[1] + rect2[3]
    \/ rect1[1] + rect1[3] <= rect2[1]
    \/ rect1[2] >= rect2[2] + rect2[4]
    \/ rect1[2] + rect1[4] <= rect2[2]

\* Tank.take_damage (with start_explosion) at wall-clock current_time
take_damage(tank, damage, current_time) ==
  IF tank.is_exploding \/ tank.is_destroyed THEN tank
  ELSE LET t == [tank EXCEPT !.health = @ - damage,
                             !.is_hit = TRUE,
                             !.hit_time = current_time,
                             !.flash_state = TRUE,
                             !.alpha = 128]
       IN IF t.health <= 0
          THEN [t EXCEPT !.health = 0, !.is_exploding = TRUE,
                         !.explosion_start_time = current_time]
          ELSE t

\* Tank.update, lines 343-351: the explosion
TankExplosion(tank, current_time) ==
  IF tank.is_exploding
     /\ current_time - tank.explosion_start_time > explosion_duration
  THEN [tank EXCEPT !.is_exploding = FALSE, !.is_destroyed = TRUE]
  ELSE tank

\* Tank.update, lines 353-366: flashing after a hit
TankHitFlash(tank, current_time) ==
  IF ~tank.is_hit THEN tank
  ELSE IF current_time - tank.hit_time > tank.hit_flash_duration
  THEN [tank EXCEPT !.is_hit = FALSE, !.alpha = 255]
  ELSE LET t == IF current_time - tank.last_flash_time > flash_interval
                THEN [tank EXCEPT !.last_flash_time = current_time,
                                  !.flash_state = ~@]
                ELSE tank
       IN [t EXCEPT !.alpha = IF t.flash_state THEN 128 ELSE 255]

\* Tank.update, lines 368-374: flashing at low health
TankLowHealth(tank, current_time) ==
  IF 10 * tank.health <= 3 * tank.max_health /\ ~tank.is_hit
     /\ ~tank.is_exploding /\ ~tank.is_destroyed
  THEN LET t == IF current_time - tank.last_flash_time > flash_interval * 2
                THEN [tank EXCEPT !.last_flash_time = current_time,
                                  !.flash_state = ~@]
                ELSE tank
       IN [t EXCEPT !.alpha = IF t.flash_state THEN 180 ELSE 255]
  ELSE tank

\* Tank.update; current_time is what current_time_ms() returns
Tank_update(tank, current_time) ==
  TankLowHealth(TankHitFlash(TankExplosion(tank, current_time), current_time),
                current_time)

\* Bullet.update with no obstacles and the one tank; current_time is what
\* pygame.time.get_ticks() and current_time_ms() return
Bullet_update(bullet, tank, current_time) ==
  IF ~bullet.active THEN [bullet |-> bullet, tank |-> tank]
  ELSE IF current_time - bullet.creation_time > bullet.lifetime
  THEN [bullet |-> [bullet EXCEPT !.active = FALSE], tank |-> tank]
  ELSE LET x == bullet.x + bullet.velocity[1]
           y == bullet.y + bullet.velocity[2]
           b == [bullet EXCEPT !.x = x, !.y = y,
                               !.rect = <<x - bullet.radius, y - bullet.radius,
                                          bullet.radius * 2, bullet.radius * 2>>]
       IN IF x < 0 \/ x > Scene.SCREEN_WIDTH \/ y < 0
             \/ y > Scene.SCREEN_HEIGHT
          THEN [bullet |-> [b EXCEPT !.active = FALSE], tank |-> tank]
          ELSE IF tank.tank_id /= b.owner_id /\ check_collision(b.rect, tank.rect)
          THEN [bullet |-> [b EXCEPT !.active = FALSE],
                tank |-> take_damage(tank, b.damage, current_time)]
          ELSE [bullet |-> b, tank |-> tank]

\* one update of the game: the tank unless destroyed, then the bullet
SimStep(run, current_time) ==
  Bullet_update(run.bullet,
                IF run.tank.is_destroyed THEN run.tank
                ELSE Tank_update(run.tank, current_time),
                current_time)

\* ------------------------------------------------------------ server actions
\* what a connection was sent so far: the number of welcome messages, the
\* client_id of the welcome, and the type of the first message
NoGreeting == [welcomes |-> 0, client_id |-> NoClient, first |-> ""]

\* a message of the given type is written to the connection
sent_to(g, type) == [g EXCEPT !.first = IF @ = "" THEN type ELSE @]

\* a handler that registers the connection without writing a welcome
send_welcome_unwritten(g, client_id) == g

\* handle_client, lines 40-47: the welcome is written to the connection when
\* send is called; the handler is suspended until the send completes
send_welcome(g, client_id) ==
  [sent_to(g, "welcome") EXCEPT !.welcomes = @ + 1, !.client_id = client_id]

\* broadcast: the message is written to every connection of the registry
deliver(G, to, type) ==
  [x \in WS |-> IF x \in to THEN sent_to(G[x], type) ELSE G[x]]

RequiredChoices == {1, 2}

CoreInit ==
  /\ now = EPOCH
  /\ required_players \in RequiredChoices
  /\ clients = [w \in WS |-> NoClient]
  /\ client_details = EmptyMap
  /\ connection_phase = TRUE
  /\ frame_manager = NewFrameManager
  /\ handler = [w \in WS |-> "closed"]
  /\ handler_id = [w \in WS |-> NoClient]
  /\ next_id = 1
  /\ close_reason = [w \in WS |-> ""]
  /\ ready_announced = 0
  /\ anchor = [w \in WS |-> 0]
  /\ greeted = [w \in WS |-> NoGreeting]
  /\ sent_frames = EmptyMap
  /\ accepted = EmptyMap
  /\ executor = NewExecutor
  /\ client_out = <<>>
  /\ executor2 = NewExecutor
  /\ broadcasting = NoBroadcast
  /\ received = NoMessage
  /\ room = NewRoom
  /\ session = NewGameSession
  /\ called = NoCall

BaseInit ==
  /\ CoreInit
  /\ stream = NoStream
  /\ server_reader = NewServerReader
  /\ client_reader = NewClientReader
  /\ runs = [r \in Runs |-> NewRun(1)]
  /\ clocks = [r \in Runs |-> 0]

Init ==
  /\ BaseInit
  /\ inputs_lists = <<<<>>, <<>>>>
  /\ logical_inputs = NoTables

\* a game_in_progress that never turns a connection away
game_never_in_progress(fm) == FALSE

\* handle_client, line 26: the test that turns a new connection away
game_in_progress(fm) == fm.game_started

\* handle_client, lines 23-47: reject, or register and send welcome
Accept(w) ==
  /\ handler[w] = "closed"
  /\ \A x \in WS : x < w => handler[x] /= "closed"
  /\ IF game_in_progress(frame_manager)
     THEN /\ close_reason' = [close_reason EXCEPT ![w] = REJECT_REASON]
          /\ UNCHANGED <<serverVars, anchor, greeted>>
     ELSE /\ next_id <= MaxIds
          /\ clients' = [clients EXCEPT ![w] = next_id]
          /\ client_details' = Put(client_details, next_id, [ready |-> FALSE])
          /\ handler_id' = [handler_id EXCEPT ![w] = next_id]
          /\ next_id' = next_id + 1
          /\ handler' = [handler EXCEPT ![w] = "welcome"]
          /\ close_reason' = [close_reason EXCEPT ![w] = ""]
          /\ anchor' = [anchor EXCEPT ![w] = 0]
          /\ greeted' = [greeted EXCEPT
                           ![w] = send_welcome(NoGreeting, next_id)]
          /\ UNCHANGED <<required_players, connection_phase, frame_manager>>
  /\ UNCHANGED <<now, ready_announced, sent_frames, accepted, clientVars, sessionVars>>

\* handle_client, lines 49-62: after the welcome was sent, join the frame
\* manager and announce game_ready when enough players are connected
Join(w) ==
  /\ handler[w] = "welcome"
  /\ frame_manager' = add_client(frame_manager, handler_id[w])
  /\ ready_announced' =
       IF connection_phase /\ Cardinality(Connected) >= required_players
          /\ broadcast(clients) /= {}
       THEN ready_announced + 1 ELSE ready_announced
  /\ greeted' =
       IF connection_phase /\ Cardinality(Connected) >= required_players
       THEN deliver(greeted, broadcast(clients), "game_ready") ELSE greeted
  /\ handler' = [handler EXCEPT ![w] = "recv"]
  /\ UNCHANGED <<now, required_players, clients, client_details,
                 connection_phase, handler_id, next_id, close_reason, anchor,
                 sent_frames, accepted, clientVars, sessionVars>>

\* process_message, client_ready
RecvClientReady(w) ==
  /\ handler[w] = "recv"
  /\ LET client_id == handler_id[w]
         r == mark_client_ready(frame_manager, client_id)
     IN /\ client_details' =
             IF client_id \in DOMAIN client_details
             THEN [client_details EXCEPT ![client_id].ready = TRUE]
             ELSE client_details
        /\ IF r.all_ready
           THEN LET fm2 == start_game(r.fm, START_DELAY_MS)
                IN /\ frame_manager' = fm2
                   /\ anchor' = [x \in WS |->
                                   IF x \in broadcast(clients)
                                   THEN fm2.game_start_time ELSE anchor[x]]
                   /\ greeted' =
                        deliver(greeted, broadcast(clients), "game_start")
           ELSE /\ frame_manager' = r.fm
                /\ UNCHANGED <<anchor, greeted>>
  /\ UNCHANGED <<now, required_players, clients, connection_phase, handler,
                 handler_id, next_id, close_reason, ready_announced,
                 sent_frames, accepted, clientVars, sessionVars>>

\* process_message, input
RecvInput(w, inputs) ==
  /\ handler[w] = "recv"
  /\ TotalInputs(frame_manager) < MaxInputs
  /\ LET client_id == handler_id[w]
     IN /\ frame_manager' = receive_input(frame_manager, client_id, inputs)
        /\ accepted' =
             IF is_input_empty(inputs) THEN accepted
             ELSE Put(accepted, client_id,
                      (IF client_id \in DOMAIN accepted
                       THEN accepted[client_id] ELSE <<>>) \o <<inputs>>)
  /\ UNCHANGED <<now, required_players, clients, client_details,
                 connection_phase, handler, handler_id, next_id, close_reason,
                 ready_announced, anchor, greeted, sent_frames, clientVars,
                 sessionVars>>

\* process_message, request_frames: the response dict
RECURSIVE CollectAll(_, _, _)
CollectAll(fm, requested_frames, response) ==
  IF requested_frames = <<>> THEN response
  ELSE LET frame_data == collect_inputs_for_frame(fm, Head(requested_frames))
           k == str_of(Head(requested_frames))
       IN CollectAll(fm, Tail(requested_frames),
                     IF DOMAIN frame_data /= {}
                     THEN Put(response, k, frame_data[k]) ELSE response)

\* the frame_response sent for a request_frames message (none: EmptyMap)
frame_response(fm, requested_frames) ==
  CollectAll(fm, requested_frames, EmptyMap)

\* the server's state does not change; the response goes to the websocket
RecvRequestFrames(w, requested_frames) ==
  /\ handler[w] = "recv"
  /\ DOMAIN frame_response(frame_manager, requested_frames) /= {}
  /\ UNCHANGED vars

reset_game == NewFrameManager

\* handle_client, finally (lines 75-89): the handler of the websocket ends
Finally(w) ==
  /\ handler[w] \in {"welcome", "recv"}
  /\ LET client_id == handler_id[w]
         cl == [clients EXCEPT ![w] = NoClient]
         fm1 == remove_client(frame_manager, client_id)
         underflow == fm1.game_started
                      /\ Cardinality({x \in WS : cl[x] /= NoClient})
                           < required_players
     IN /\ clients' = cl
        /\ client_details' = Drop(client_details, client_id)
        /\ frame_manager' = IF underflow THEN reset_game ELSE fm1
        /\ connection_phase' = IF underflow THEN TRUE ELSE connection_phase
        /\ sent_frames' = IF underflow THEN EmptyMap ELSE sent_frames
        /\ ready_announced' = IF underflow THEN 0 ELSE ready_announced
        /\ accepted' = IF underflow THEN EmptyMap ELSE Drop(accepted, client_id)
  /\ handler' = [handler EXCEPT ![w] = "closed"]
  /\ handler_id' = [handler_id EXCEPT ![w] = NoClient]
  /\ anchor' = [anchor EXCEPT ![w] = 0]
  /\ greeted' = [greeted EXCEPT ![w] = NoGreeting]
  /\ UNCHANGED <<now, required_players, next_id, close_reason, clientVars>>

\* the connection is gone: ConnectionClosed (line 71), then finally
Disconnect(w) == Finally(w) /\ UNCHANGED sessionVars

\* one iteration of game_loop (lines 200-237) after a sleep of d ms, the
\* broadcast of line 234 taken as a whole
PollFrame(d) ==
  /\ now + d <= MaxNow
  /\ now' = now + d
  /\ LET fm == frame_manager
         elapsed_time == now' - fm.game_start_time
         frames_should_have_passed ==
           (elapsed_time * LOGIC_TICK_RATE) \div 1000
     IN IF fm.game_started /\ elapsed_time >= 0
           /\ frames_should_have_passed > fm.current_frame
        THEN LET fm1 == [fm EXCEPT !.current_frame = frames_should_have_passed]
                 current_turn == frames_should_have_passed \div fm.turn_size
             IN IF frames_should_have_passed % fm.turn_size = 0
                THEN LET p == prepare_input_broadcast(
                                process_inputs_for_turn(fm1, current_turn))
                     IN /\ frame_manager' = p.fm
                        /\ sent_frames' =
                             IF broadcast(clients) = {} THEN sent_frames
                             ELSE Put(sent_frames, p.msg.current_frame,
                                      [inputs |-> p.msg.inputs,
                                       to |-> broadcast(clients),
                                       registry |-> ConnectedIds])
                        /\ greeted' = deliver(greeted, broadcast(clients),
                                              "input_frame")
                ELSE /\ frame_manager' = fm1
                     /\ UNCHANGED <<sent_frames, greeted>>
        ELSE UNCHANGED <<frame_manager, sent_frames, greeted>>
  /\ UNCHANGED <<required_players, clients, client_details, connection_phase,
                 handler, handler_id, next_id, close_reason, ready_announced,
                 anchor, accepted, clientVars>>

\* an iteration of game_loop none of whose sends is suspended
GameLoop(d) == PollFrame(d) /\ ~broadcasting.active /\ ~broadcasting.crashed
               /\ UNCHANGED sessionVars

Next ==
  \/ \E w \in WS : Accept(w)
  \/ \E w \in WS : Join(w)
  \/ \E w \in WS : RecvClientReady(w)
  \/ \E w \in WS, inputs \in RawInputs : RecvInput(w, inputs)
  \/ \E w \in WS, requested_frames \in RequestLists :
        RecvRequestFrames(w, requested_frames)
  \/ \E w \in WS : Disconnect(w)
  \/ \E d \in SleepSteps : GameLoop(d)

Spec == Init /\ [][Next]_vars

\* ---------------------------------------------------------- executor actions
\* The executor of one client, driven by the messages of its connection and
\* by its update tick.
ExecSteps == {30, 170, 500}

InputFrames == {5, 10}

RowChoices ==
  {[c \in {1, 2} |-> <<>>],
   [c \in {1, 2} |-> IF c = 1
                     THEN <<[movement |-> "right", shoot |-> FALSE],
                            [movement |-> "stop", shoot |-> TRUE]>>
                     ELSE <<>>]}

ResponseFrames == {{0}, {5}, {5, 10}}

ExecInit == Init /\ required_players = 1

\* game_start arrives: set_start_time
ExecGameStart ==
  /\ executor.game_start_time = 0
  /\ executor' = set_start_time(executor, EPOCH + START_DELAY_MS)
  /\ UNCHANGED <<now, serverVars, historyVars, sessionVars, client_out, executor2, mergeVars>>

\* input_frame arrives: add_input_frame(current_frame, inputs)
ExecInputFrame(frame, inputs) ==
  /\ executor' = add_input_frame(executor, frame, inputs)
  /\ UNCHANGED <<now, serverVars, historyVars, sessionVars, client_out, executor2, mergeVars>>

\* frame_response arrives: add_input_frame(None, frames)
ExecFrameResponse(frames) ==
  /\ executor' = add_input_frames(executor, frames)
  /\ UNCHANGED <<now, serverVars, historyVars, sessionVars, client_out, executor2, mergeVars>>

ExecTick(d) ==
  /\ now + d <= MaxNow
  /\ now' = now + d
  /\ UNCHANGED <<serverVars, historyVars, sessionVars, clientVars>>

\* the update tick: execute_logic_frame
ExecUpdate ==
  \E round_up \in BOOLEAN :
    LET r == execute_logic_frame(executor, now, round_up)
    IN /\ executor' = r.fe
       /\ client_out' = IF r.request /= <<>> THEN r.request ELSE client_out
       /\ UNCHANGED <<now, serverVars, historyVars, sessionVars, executor2, mergeVars>>

ExecNext ==
  \/ ExecGameStart
  \/ \E frame \in InputFrames, inputs \in RowChoices :
        ExecInputFrame(frame, inputs)
  \/ \E F \in ResponseFrames, inputs \in RowChoices :
        ExecFrameResponse([k \in {str_of(f) : f \in F} |-> inputs])
  \/ \E d \in ExecSteps : ExecTick(d)
  \/ ExecUpdate

ExecSpec == ExecInit /\ [][ExecNext]_vars

\* -------------------------------------------------------------------- claims
IsPrefix(a, b) == Len(a) <= Len(b) /\ SubSeq(b, 1, Len(a)) = a

\* the row of turn t in the turn table (no row: the empty mapping)
RowOf(fm, t) ==
  IF t \in DOMAIN fm.input_history THEN fm.input_history[t] ELSE EmptyMap

Staged(fm, c) ==
  IF c \in DOMAIN fm.input_buffer THEN fm.input_buffer[c] ELSE <<>>

\* the inputs of client c in the rows of turns t, t+1, ..., in turn order
RECURSIVE RowsFrom(_, _, _)
RowsFrom(fm, c, t) ==
  IF t > fm.last_processed_turn /\ t > 0 THEN <<>>
  ELSE (IF c \in DOMAIN RowOf(fm, t) THEN RowOf(fm, t)[c] ELSE <<>>)
       \o RowsFrom(fm, c, t + 1)

\* everything the server holds of client c: its rows, then its staged inputs
Held(fm, c) == RowsFrom(fm, c, 0) \o Staged(fm, c)

Turns == 0 .. (((MaxNow * LOGIC_TICK_RATE) \div 1000) \div TURN_SIZE)

Finalized(fm, t) ==
  \/ t = 0 /\ fm.game_started
  \/ t >= 1 /\ t <= fm.last_processed_turn

\* a step that replaces the frame manager (reset_game)
ResetStep == frame_manager.game_started /\ ~frame_manager'.game_started

\* the websockets a game_start is sent to in a step
GameStartTo == {w \in WS : anchor'[w] /= 0 /\ anchor'[w] /= anchor[w]}

\* C1 (as claimed): the row the server returns for a requested frame equals
\* the row it broadcast for that frame in this game.
C1_ResponseEqualsBroadcast ==
  \A f \in DOMAIN sent_frames :
    frame_response(frame_manager, <<f>>)[str_of(f)] = sent_frames[f].inputs

\* C3 (as claimed): every broadcast input_frame is for a turn boundary and is
\* keyed by exactly the clients connected when the turn was finalized.
C3_KeysAreConnected ==
  \A f \in DOMAIN sent_frames :
    /\ f % TURN_SIZE = 0
    /\ DOMAIN sent_frames[f].inputs = sent_frames[f].registry

\* C4 (as claimed): what the server holds of a client that stays connected
\* is never lost: its rows and staged inputs only grow.
C4_NeverLost ==
  [][\A c \in ConnectedIds :
       c \in {clients'[w] : w \in WS}
       => IsPrefix(Held(frame_manager, c), Held(frame_manager', c))]_vars

\* C4 (amended): within one game (until an underflow reset discards it) the
\* non-empty inputs accepted from a connected client are, in the order of
\* arrival and each exactly once, the lists of its rows in turn order
\* followed by its staged inputs.
C4_AcceptedExactlyOnce ==
  \A c \in ConnectedIds :
    (IF c \in DOMAIN accepted THEN accepted[c] ELSE <<>>)
      = Held(frame_manager, c)

C4_Witness ==
  \E c \in ConnectedIds : \E t \in Turns :
    /\ t >= 1
    /\ c \in DOMAIN RowOf(frame_manager, t)
    /\ RowOf(frame_manager, t)[c] /= <<>>
    /\ Staged(frame_manager, c) /= <<>>

\* C5 (as claimed): a finalized row of the turn table never changes while
\* the frame manager of that game exists.
C5_RowsImmutable ==
  [][\A t \in Turns :
       (Finalized(frame_manager, t) /\ ~ResetStep)
       => RowOf(frame_manager', t) = RowOf(frame_manager, t)]_vars

C7_AllAcknowledged ==
  [][GameStartTo /= {}
     => \A w \in WS : clients'[w] /= NoClient
                       => client_details'[clients'[w]].ready]_vars

\* C8 (as claimed): the game is never started with fewer than
\* required_players connected clients.
C8_StartNeedsRequiredPlayers ==
  frame_manager.game_started => Cardinality(Connected) >= required_players

\* C9: while the game is started a closed websocket stays closed and
\* unregistered, no client id is handed out, and a connection attempt only
\* closes the websocket with the rejection reason, changing no server state.
C9_RejectedWhileStarted ==
  [][frame_manager.game_started
     => /\ next_id' = next_id
        /\ \A w \in WS :
             handler[w] = "closed"
             => /\ handler'[w] = "closed"
                /\ clients'[w] = NoClient
                /\ close_reason'[w] /= close_reason[w]
                   => /\ close_reason'[w] = REJECT_REASON
                      /\ UNCHANGED serverVars]_vars

C9_Witness ==
  /\ frame_manager.game_started
  /\ \E w \in WS : handler[w] = "closed" /\ close_reason[w] = REJECT_REASON

\* C10 (as claimed): the number of admitted clients never exceeds
\* required_players.
C10_AtMostRequired == Cardinality(Connected) <= required_players

\* C2: a turn-boundary frame is stepped only with its row in input_buffer;
\* without it the executor stays on the frame and keeps its accumulator.
IsInputFrame(f) == f /= 0 /\ f % TURN_SIZE = 0

C2_LockstepGating ==
  [][/\ \A f \in executor.current_frame .. executor'.current_frame - 1 :
          IsInputFrame(f) => f \in DOMAIN executor.input_buffer
     /\ (/\ IsInputFrame(executor.current_frame)
         /\ executor.current_frame \notin DOMAIN executor.input_buffer)
        => /\ executor'.current_frame = executor.current_frame
           /\ executor'.logic_accumulator
                = executor.logic_accumulator
                  + 3 * (executor'.last_update_time - executor.last_update_time)
     /\ \A f \in 1 .. executor'.current_frame - 1 :
          IsInputFrame(f) => f \in DOMAIN executor'.input_buffer]_vars

C2_Witness ==
  /\ executor.current_frame = TURN_SIZE
  /\ TURN_SIZE \notin DOMAIN executor.input_buffer
  /\ executor.waiting_for_input
  /\ executor.logic_accumulator > 2 * FrameInterval3

\* ------------------------------------------------ a game without any input
\* The server when no client sends input and no client disconnects.  The
\* game loop is a task that runs for ever (while True ... sleep), so it is
\* scheduled again and again for as long as the clock may advance.
QuietNext ==
  \/ \E w \in WS : Accept(w)
  \/ \E w \in WS : Join(w)
  \/ \E w \in WS : RecvClientReady(w)
  \/ \E w \in WS, requested_frames \in RequestLists :
        RecvRequestFrames(w, requested_frames)
  \/ \E d \in SleepSteps : GameLoop(d)

QuietSpec ==
  Init /\ [][QuietNext]_vars /\ WF_vars(\E d \in SleepSteps : GameLoop(d))

\* the frame the game loop computes from the clock
FrameClock ==
  ((now - frame_manager.game_start_time) * LOGIC_TICK_RATE) \div 1000

\* the clock of the model stops before the game reaches frame f
ClockEndsBefore(f) ==
  /\ \A d \in SleepSteps : now + d > MaxNow
  /\ \/ now < frame_manager.game_start_time
     \/ FrameClock < f

\* C11 (as claimed, for turn 1): in a started game without input and without
\* disconnects the server eventually broadcasts the input_frame of frame
\* TURN_SIZE with every client mapped to the empty list.
C11_EmptyTurnBroadcast ==
  [](frame_manager.game_started
     => <>(\/ /\ TURN_SIZE \in DOMAIN sent_frames
              /\ \A c \in DOMAIN sent_frames[TURN_SIZE].inputs :
                   sent_frames[TURN_SIZE].inputs[c] = <<>>
           \/ ClockEndsBefore(TURN_SIZE)))

\* ------------------------------------------------- gap detection (client)
\* an update at time t runs the loop of execute_logic_frame at least once
LoopRuns(fe, t) ==
  /\ t >= fe.game_start_time
  /\ fe.last_update_time /= 0
  /\ fe.logic_accumulator + 3 * (t - fe.last_update_time) > FrameInterval3

\* the turn-boundary frames of [current_frame, latest_received_frame] that
\* are absent from input_buffer
AbsentBoundaries(fe) ==
  {f \in fe.current_frame .. fe.latest_received_frame :
     IsInputFrame(f) /\ f \notin DOMAIN fe.input_buffer}

SeqRange(q) == {q[i] : i \in DOMAIN q}

\* C12 (as claimed): an update of an executor that is behind
\* latest_received_frame with turn-boundary frames absent does not advance
\* and requests exactly those frames; with none absent it requests nothing
\* and does not stall before it is past latest_received_frame.
C12_GapDetection ==
  \A round_up \in BOOLEAN :
    LET fe == executor
        r == execute_logic_frame(fe, now, round_up)
    IN (LoopRuns(fe, now) /\ fe.latest_received_frame > fe.current_frame)
       => IF AbsentBoundaries(fe) /= {}
          THEN /\ r.fe.current_frame = fe.current_frame
               /\ SeqRange(r.request) = AbsentBoundaries(fe)
               /\ Len(r.request) = Cardinality(AbsentBoundaries(fe))
          ELSE /\ r.request = <<>>
               /\ r.fe.current_frame > fe.current_frame
               /\ r.fe.waiting_for_input
                  => r.fe.current_frame > fe.latest_received_frame

\* C13 (as claimed): the frame_response to a connected client's
\* request_frames has an entry only for frames whose turn is finalized.
C13_ResponseOnlyFinalized ==
  (\E w \in WS : handler[w] = "recv")
  => \A requested_frames \in RequestLists :
       \A k \in DOMAIN frame_response(frame_manager, requested_frames) :
         Finalized(frame_manager, int_of(k) \div TURN_SIZE)

\* ------------------------------------------------ installed-input history
\* the clients whose logical input the simulation step reads
SimClients == {1, 2}

\* what the simulation step reads from a table of logical inputs
Reads(client_inputs) ==
  [c \in SimClients |-> get_client_input(client_inputs, c)]

\* what a step reads after the row was installed on a cleared table
Installs(row) == Reads(set_input_frame(set_non_input, row))

\* the (frame, inputs read) history of the steps an executor has taken
Installed(fe) ==
  [i \in DOMAIN fe.steps |->
     [frame |-> fe.steps[i].frame, inputs |-> Reads(fe.steps[i].inputs)]]

\* C14 (as claimed): a frame_response all of whose frames are already in
\* input_buffer changes neither the history of the frames executed nor what
\* a buffered frame still to be executed installs.
C14_GapFillIdempotent ==
  \A F \in ResponseFrames, inputs \in RowChoices :
    LET fe2 == add_input_frames(executor,
                                [k \in {str_of(f) : f \in F} |-> inputs])
    IN F \subseteq DOMAIN executor.input_buffer
       => /\ Installed(fe2) = Installed(executor)
          /\ \A f \in DOMAIN executor.input_buffer :
               f >= executor.current_frame
               => Installs(fe2.input_buffer[f])
                    = Installs(executor.input_buffer[f])

\* ------------------------------------------------- two executor instances
\* Two FrameExecutor instances that are given the same T0 and the same
\* messages in the same order; each runs its update ticks when it likes.
PairInit == Init /\ required_players = 1

PairGameStart ==
  /\ executor.game_start_time = 0
  /\ executor' = set_start_time(executor, EPOCH + START_DELAY_MS)
  /\ executor2' = set_start_time(executor2, EPOCH + START_DELAY_MS)
  /\ UNCHANGED <<now, serverVars, historyVars, sessionVars, client_out, mergeVars>>

\* the server broadcasts a frame once: an input_frame is not repeated
PairInputFrame(frame, inputs) ==
  /\ frame \notin DOMAIN executor.input_buffer
  /\ executor' = add_input_frame(executor, frame, inputs)
  /\ executor2' = add_input_frame(executor2, frame, inputs)
  /\ UNCHANGED <<now, serverVars, historyVars, sessionVars, client_out, mergeVars>>

PairFrameResponse(frames) ==
  /\ executor' = add_input_frames(executor, frames)
  /\ executor2' = add_input_frames(executor2, frames)
  /\ UNCHANGED <<now, serverVars, historyVars, sessionVars, client_out, mergeVars>>

PairTick(d) ==
  /\ now + d <= MaxNow
  /\ now' = now + d
  /\ UNCHANGED <<serverVars, historyVars, sessionVars, clientVars>>

PairUpdate1 ==
  \E round_up \in BOOLEAN :
    /\ executor' = execute_logic_frame(executor, now, round_up).fe
    /\ UNCHANGED <<now, serverVars, historyVars, sessionVars, client_out, executor2,
                   mergeVars>>

PairUpdate2 ==
  \E round_up \in BOOLEAN :
    /\ executor2' = execute_logic_frame(executor2, now, round_up).fe
    /\ UNCHANGED <<now, serverVars, historyVars, sessionVars, client_out, executor,
                   mergeVars>>

PairNext ==
  \/ PairGameStart
  \/ \E frame \in InputFrames, inputs \in RowChoices :
        PairInputFrame(frame, inputs)
  \/ \E F \in ResponseFrames, inputs \in RowChoices :
        PairFrameResponse([k \in {str_of(f) : f \in F} |-> inputs])
  \/ \E d \in SleepSteps : PairTick(d)
  \/ PairUpdate1
  \/ PairUpdate2

PairSpec == PairInit /\ [][PairNext]_vars

\* C15 (as claimed): of the (frame, inputs installed) histories of two
\* executors given the same T0 and the same messages, one is a prefix of
\* the other.
C15_ExecutorDeterminism ==
  \/ IsPrefix(Installed(executor), Installed(executor2))
  \/ IsPrefix(Installed(executor2), Installed(executor))

\* C16: current_frame starts at 0 and in every step it stays or grows by
\* one for each frame executed, the frames executed being current_frame,
\* current_frame + 1, ... in this order.
C16_FrameMonotone ==
  /\ executor.current_frame = 0
  /\ [][LET n == Len(executor.steps)
            n2 == Len(executor'.steps)
        IN /\ executor'.current_frame >= executor.current_frame
           /\ n2 >= n
           /\ executor'.current_frame - executor.current_frame = n2 - n
           /\ \A i \in n + 1 .. n2 :
                executor'.steps[i].frame
                  = executor.current_frame + (i - n - 1)]_vars

C16_Witness ==
  /\ executor.current_frame > TURN_SIZE
  /\ Len(executor.steps) = executor.current_frame

\* ------------------------------------------------------- merge semantics
\* the merge of a per-turn list as the specification words it: the movement
\* of the last element that is not stop (stop if none), shoot iff some
\* element shoots
MergeOf(L) ==
  LET moving == {i \in DOMAIN L : L[i].movement /= "stop"}
      last == CHOOSE i \in moving : \A j \in moving : j <= i
  IN [movement |-> IF moving = {} THEN "stop" ELSE L[last].movement,
      shoot |-> \E i \in DOMAIN L : L[i].shoot]

\* the clients a simulation step may ask for, one of them in no row
AskedClients == SimClients \cup {3}

\* C17: every simulation step taken read, for each client, the merge of the
\* client's list in the row of an input frame ({stop,false} for a client
\* absent from the row) and {stop,false} at every other frame.
C17_StepReadsTurnInputs ==
  \A i \in DOMAIN executor.steps :
    LET step == executor.steps[i]
    IN \A c \in AskedClients :
         get_client_input(step.inputs, c)
           = IF IsInputFrame(step.frame) /\ c \in DOMAIN step.row
             THEN MergeOf(step.row[c])
             ELSE [movement |-> "stop", shoot |-> FALSE]

C17_Witness ==
  \E i \in DOMAIN executor.steps :
    /\ executor.steps[i].frame = TURN_SIZE
    /\ get_client_input(executor.steps[i].inputs, 1).movement = "right"
    /\ i + 1 \in DOMAIN executor.steps

\* ------------------------------------------- LogicalInputManager on lists
MaxMergeLen == 2

MergeMovements == {"stop", "right", "up"}

MergeInputs == [movement : MergeMovements, shoot : BOOLEAN]

MergeLists ==
  UNION {[1 .. n -> MergeInputs] : n \in 0 .. MaxMergeLen}

MergeClient == 1

MergeInit ==
  /\ BaseInit
  /\ required_players = 1
  /\ inputs_lists \in MergeLists \X MergeLists
  /\ logical_inputs = NoTables

\* merge(L): what get_client_input returns after L was installed on a
\* cleared table
InstallOnCleared(inputs_list) ==
  merge_inputs(set_non_input, MergeClient, inputs_list)

\* the two lists, one after the other, are installed
MergeConcat ==
  /\ logical_inputs' =
       [logical_inputs EXCEPT
          !.concat = InstallOnCleared(inputs_lists[1] \o inputs_lists[2]),
          !.done = @ \cup {"concat"}]
  /\ UNCHANGED <<now, serverVars, historyVars, sessionVars, executor, client_out,
                 executor2, inputs_lists>>

\* the same with an empty input appended
MergeAppended ==
  /\ logical_inputs' =
       [logical_inputs EXCEPT
          !.appended = InstallOnCleared(inputs_lists[1] \o inputs_lists[2]
                                          \o <<EmptyInput>>),
          !.done = @ \cup {"appended"}]
  /\ UNCHANGED <<now, serverVars, historyVars, sessionVars, executor, client_out,
                 executor2, inputs_lists>>

\* each list is merged on its own and the two results are installed
MergePair ==
  /\ logical_inputs' =
       [logical_inputs EXCEPT
          !.pair = InstallOnCleared(
                     <<get_client_input(InstallOnCleared(inputs_lists[1]),
                                        MergeClient),
                       get_client_input(InstallOnCleared(inputs_lists[2]),
                                        MergeClient)>>),
          !.done = @ \cup {"pair"}]
  /\ UNCHANGED <<now, serverVars, historyVars, sessionVars, executor, client_out,
                 executor2, inputs_lists>>

\* set_non_input on every table
MergeClear ==
  /\ logical_inputs.done /= {}
  /\ logical_inputs' = NoTables
  /\ UNCHANGED <<now, serverVars, historyVars, sessionVars, executor, client_out,
                 executor2, inputs_lists>>

MergeNext == MergeConcat \/ MergeAppended \/ MergePair \/ MergeClear

MergeSpec == MergeInit /\ [][MergeNext]_vars

MergedConcat == get_client_input(logical_inputs.concat, MergeClient)

\* C18: the merged input of an installed list has the movement of the last
\* element that is not stop (stop if there is none) and shoots iff some
\* element shoots.
C18_MergeSemantics ==
  "concat" \in logical_inputs.done
  => MergedConcat = MergeOf(inputs_lists[1] \o inputs_lists[2])

C18_Witness ==
  /\ "concat" \in logical_inputs.done
  /\ inputs_lists[1] \o inputs_lists[2]
       = <<[movement |-> "right", shoot |-> FALSE],
           [movement |-> "up", shoot |-> FALSE],
           [movement |-> "stop", shoot |-> TRUE]>>
  /\ MergedConcat = [movement |-> "up", shoot |-> TRUE]

\* C19: merge(L ++ [{stop,false}]) = merge(L), and merge([]) = {stop,false}.
C19_AppendEmptyIsNoOp ==
  /\ {"concat", "appended"} \subseteq logical_inputs.done
     => get_client_input(logical_inputs.appended, MergeClient) = MergedConcat
  /\ ("concat" \in logical_inputs.done
      /\ inputs_lists[1] \o inputs_lists[2] = <<>>)
     => MergedConcat = [movement |-> "stop", shoot |-> FALSE]

C19_Witness ==
  /\ {"concat", "appended"} \subseteq logical_inputs.done
  /\ MergedConcat = [movement |-> "right", shoot |-> TRUE]
  /\ get_client_input(logical_inputs.appended, MergeClient) = MergedConcat

\* C20: merge(L1 ++ L2) = merge([merge(L1), merge(L2)]).
C20_MergeAssociative ==
  {"concat", "pair"} \subseteq logical_inputs.done
  => get_client_input(logical_inputs.pair, MergeClient) = MergedConcat

C20_Witness ==
  /\ {"concat", "pair"} \subseteq logical_inputs.done
  /\ Len(inputs_lists[1]) = MaxMergeLen
  /\ Len(inputs_lists[2]) = MaxMergeLen
  /\ inputs_lists[1][MaxMergeLen].shoot
  /\ inputs_lists[2][1].movement = "up"
  /\ inputs_lists[2][MaxMergeLen].movement = "stop"
  /\ MergedConcat = [movement |-> "up", shoot |-> TRUE]

\* ------------------------------------------------------- the first frame
\* C21 (as claimed): while current_frame is 0 the executor is not waiting
\* for input, frame 0 is neither in missing_frames nor requested, and an
\* update that runs the loop executes frame 0.
C21_FrameZeroNeverStalls ==
  /\ executor.current_frame = 0
     => /\ ~executor.waiting_for_input
        /\ 0 \notin SeqRange(executor.missing_frames)
  /\ 0 \notin SeqRange(client_out)
  /\ \A round_up \in BOOLEAN :
       (executor.current_frame = 0 /\ LoopRuns(executor, now))
       => execute_logic_frame(executor, now, round_up).fe.current_frame >= 1

\* C22 (as claimed): one call of execute_logic_frame executes at most
\* MAX_FRAMES_PER_UPDATE frames.
C22_CatchUpCap ==
  \A round_up \in BOOLEAN :
    LET r == execute_logic_frame(executor, now, round_up)
    IN /\ r.fe.current_frame - executor.current_frame
            <= MAX_FRAMES_PER_UPDATE
       /\ Len(r.fe.steps) - Len(executor.steps) <= MAX_FRAMES_PER_UPDATE

\* ------------------------------------------------------ lobby and underflow
\* C23 (as claimed): an input received while no game is started is not
\* staged.
C23_InputIgnoredBeforeStart ==
  ~frame_manager.game_started
  => \A c \in DOMAIN frame_manager.input_buffer :
       frame_manager.input_buffer[c] = <<>>

\* C24 (as claimed): the step of a disconnect that leaves fewer than
\* required_players clients in a started game ends in the lobby: a frame
\* manager with frame counter 0, nothing staged, no rows, no ready clients,
\* no game started, the connection phase open, and the clients that are
\* still connected registered in it and not ready.
C24_UnderflowDiscardsGame ==
  [][ResetStep
     => /\ frame_manager'.current_frame = 0
        /\ frame_manager'.input_buffer = EmptyMap
        /\ frame_manager'.input_history = EmptyMap
        /\ frame_manager'.ready_clients = {}
        /\ ~frame_manager'.game_started
        /\ connection_phase'
        /\ frame_manager'.clients
             = {handler_id'[w] : w \in {x \in WS : handler'[x] = "recv"}}
        /\ \A c \in DOMAIN client_details' : ~client_details'[c].ready]_vars

\* C25 (as claimed): the clients an input_frame is sent to are exactly the
\* keys of its inputs map.
C25_RecipientsAreKeys ==
  \A f \in DOMAIN sent_frames :
    /\ \A c \in sent_frames[f].registry : c \in DOMAIN sent_frames[f].inputs
    /\ \A c \in DOMAIN sent_frames[f].inputs : c \in sent_frames[f].registry

\* C26 (as claimed): no list of a row of the turn table or of a broadcast
\* input_frame contains the empty raw input, and every client the
\* input_frame is sent to has a list in it.
C26_NoEmptyRawInput ==
  /\ \A t \in DOMAIN frame_manager.input_history :
       \A c \in DOMAIN frame_manager.input_history[t] :
         EmptyInput \notin SeqRange(frame_manager.input_history[t][c])
  /\ \A f \in DOMAIN sent_frames :
       /\ \A c \in DOMAIN sent_frames[f].inputs :
            EmptyInput \notin SeqRange(sent_frames[f].inputs[c])
       /\ \A c \in sent_frames[f].registry :
            c \in DOMAIN sent_frames[f].inputs

\* C27: for every connected client the lists of its rows, in turn order,
\* are a prefix of the inputs accepted from it in arrival order, and a row
\* never holds under its key an input accepted from another client only.
C27_PerClientOrder ==
  \A c \in ConnectedIds :
    LET acc == IF c \in DOMAIN accepted THEN accepted[c] ELSE <<>>
    IN /\ IsPrefix(RowsFrom(frame_manager, c, 0), acc)
       /\ \A t \in DOMAIN frame_manager.input_history :
            c \in DOMAIN frame_manager.input_history[t]
            => SeqRange(frame_manager.input_history[t][c]) \subseteq SeqRange(acc)

C27_Witness ==
  \E c \in ConnectedIds :
    /\ Len(RowsFrom(frame_manager, c, 0)) = 2
    /\ RowsFrom(frame_manager, c, 0)[1] /= RowsFrom(frame_manager, c, 0)[2]
    /\ \E d \in ConnectedIds : d /= c /\ Staged(frame_manager, d) = <<>>

\* ------------------------------------------------ the broadcast of game_loop
\* The loop `for websocket in self.clients: await websocket.send(...)` of
\* broadcast, suspended at each send while connection handlers run.
\*
\* next() of the dict iterator.  The registry is a dict in insertion order,
\* which is the order of the client ids.  next() raises RuntimeError when
\* the dict has not the size it had when the loop began, ends the loop when
\* no entry is left, and raises RuntimeError when an entry is left after as
\* many entries were yielded as the dict had.
dict_next(cl, last, size, left) ==
  LET rest == {w \in WS : cl[w] /= NoClient /\ cl[w] > last}
  IN IF Cardinality(broadcast(cl)) /= size
     THEN [raised |-> TRUE, ws |-> {}]
     ELSE IF rest = {} THEN [raised |-> FALSE, ws |-> {}]
     ELSE IF left = 0 THEN [raised |-> TRUE, ws |-> {}]
     ELSE [raised |-> FALSE,
           ws |-> {w \in rest : \A x \in rest : cl[w] <= cl[x]}]

\* the for statement after the send to the client `last` ended
IterateFrom(b, cl) ==
  LET nx == dict_next(cl, b.last, b.size, b.left)
  IN IF nx.raised
     THEN [b EXCEPT !.active = FALSE, !.crashed = TRUE, !.pending = {}]
     ELSE IF nx.ws = {}
     THEN [b EXCEPT !.active = FALSE, !.pending = {}]
     ELSE [b EXCEPT !.pending = nx.ws,
                    !.last = cl[CHOOSE w \in nx.ws : TRUE],
                    !.left = @ - 1]

\* an iteration of game_loop whose broadcast (if it makes one) is suspended
\* in its first send
LoopBroadcast(d) ==
  /\ ~broadcasting.active
  /\ ~broadcasting.crashed
  /\ PollFrame(d)
  /\ broadcasting' =
       IF sent_frames' /= sent_frames
       THEN IterateFrom([NoBroadcast EXCEPT
                           !.active = TRUE,
                           !.size = Cardinality(broadcast(clients)),
                           !.left = Cardinality(broadcast(clients)),
                           !.at_start = ConnectedIds],
                        clients)
       ELSE broadcasting
  /\ UNCHANGED <<received, sideVars>>

\* the suspended send returns (ok) or raises and is caught (lines 172-178);
\* the loop goes on to the next websocket
SendNext(ok) ==
  /\ broadcasting.active
  /\ ok => \E w \in broadcasting.pending : clients[w] = broadcasting.last
  /\ broadcasting' =
       IterateFrom([broadcasting EXCEPT
                      !.sent = IF ok THEN @ \cup {broadcasting.last} ELSE @,
                      !.failed = IF ok THEN @ ELSE @ \cup {broadcasting.last}],
                   clients)
  /\ UNCHANGED <<now, serverVars, historyVars, clientVars, received, sideVars>>

BroadcastNext ==
  \/ \E w \in WS : Accept(w)
  \/ \E w \in WS : Join(w)
  \/ \E w \in WS : RecvClientReady(w)
  \/ \E w \in WS : Disconnect(w)
  \/ \E d \in SleepSteps : LoopBroadcast(d)
  \/ \E ok \in BOOLEAN : SendNext(ok)

BroadcastSpec == Init /\ [][BroadcastNext]_vars

\* C28 (as claimed): a broadcast of the game loop never ends the loop, and
\* when it is over every client that was registered when it began and is
\* still connected had the message sent to it.
C28_BroadcastIsolation ==
  /\ ~broadcasting.crashed
  /\ ~broadcasting.active
     => \A c \in broadcasting.at_start \cap ConnectedIds :
          c \in broadcasting.sent \cup broadcasting.failed

\* --------------------------------------------- messages of no handled type
MaxOther == 1

\* messages that are not a well-formed client_ready, input or request_frames
OtherMessages ==
  {"invalid_json", "not_an_object", "inputs_not_a_record",
   "frames_not_integers", "unknown_type"}

MalformedMessages == OtherMessages \ {"unknown_type"}

\* a message_outcome in which a type without a branch raises
message_outcome_strict(kind) ==
  IF kind = "invalid_json" THEN "dropped" ELSE "raised"

\* what the receive loop does with the message: json.loads raises
\* JSONDecodeError, which line 69 catches ("dropped"); data.get of a value
\* that is no dict (line 99), inputs.get of a non-empty value that is no
\* dict (frame_manager.py line 43) and frame // turn_size of a frame that is
\* no number (line 153) raise an exception line 69 does not catch
\* ("raised"); a type without a branch runs no branch ("skipped")
message_outcome(kind) ==
  IF kind = "invalid_json" THEN "dropped"
  ELSE IF kind = "unknown_type" THEN "skipped"
  ELSE "raised"

\* the receive loop takes a message of OtherMessages from the websocket
RecvOther(w, kind) ==
  /\ handler[w] = "recv"
  /\ received.count < MaxOther
  /\ received' = [count |-> received.count + 1,
                  client_id |-> handler_id[w],
                  kind |-> kind,
                  ready |-> handler_id[w] \in frame_manager.ready_clients]
  /\ IF message_outcome(kind) = "raised"
     THEN Finally(w)
     ELSE UNCHANGED <<now, serverVars, historyVars, clientVars>>
  /\ UNCHANGED <<broadcasting, sideVars>>

MessageNext ==
  \/ \E w \in WS : Accept(w)
  \/ \E w \in WS : Join(w)
  \/ \E w \in WS : RecvClientReady(w)
  \/ \E w \in WS : Disconnect(w)
  \/ \E d \in SleepSteps : GameLoop(d)
  \/ \E w \in WS, kind \in OtherMessages : RecvOther(w, kind)

MessageSpec == Init /\ [][MessageNext]_vars

\* C29 (as claimed): a step in which a malformed message is taken changes
\* no server state: the connection stays open, the client registered, and
\* no game is reset.
C29_MalformedDropped ==
  [][(received'.count > received.count
      /\ received'.kind \in MalformedMessages)
     => UNCHANGED <<serverVars, historyVars>>]_vars

C34_OneStartPerGame ==
  [][(frame_manager.game_started /\ frame_manager'.game_started)
     => /\ frame_manager'.game_start_time = frame_manager.game_start_time
        /\ GameStartTo = {}]_vars

\* the turn-boundary frames the server's frame counter has reached
ReachedBoundaries(fm) ==
  {f \in 1 .. fm.current_frame : f % TURN_SIZE = 0}

\* C35 (as claimed): every turn-boundary frame the server's current_frame
\* has reached was finalized and broadcast.
C35_NoTurnSkipped ==
  frame_manager.game_started
  => \A f \in ReachedBoundaries(frame_manager) :
       /\ frame_manager.last_processed_turn >= f \div TURN_SIZE
       /\ f \in DOMAIN sent_frames

\* C36: within one game current_frame never decreases, and a broadcast
\* input_frame is for a positive multiple of TURN_SIZE greater than every
\* frame broadcast before, of a turn greater than last_processed_turn.
C36_FramesIncrease ==
  [][~ResetStep
     => /\ frame_manager'.current_frame >= frame_manager.current_frame
        /\ frame_manager'.last_processed_turn
             >= frame_manager.last_processed_turn
        /\ \A f \in DOMAIN sent_frames' :
             (f \notin DOMAIN sent_frames \/ sent_frames'[f] /= sent_frames[f])
             => /\ f > 0
                /\ f % TURN_SIZE = 0
                /\ f \notin DOMAIN sent_frames
                /\ \A g \in DOMAIN sent_frames : g < f
                /\ f \div TURN_SIZE > frame_manager.last_processed_turn
                /\ f \div TURN_SIZE = frame_manager'.last_processed_turn]_vars

C36_Witness ==
  /\ {TURN_SIZE, 2 * TURN_SIZE} \subseteq DOMAIN sent_frames
  /\ frame_manager.current_frame = 2 * TURN_SIZE
  /\ frame_manager.last_processed_turn = 2

\* C37 (as claimed): while the game is started every client registered in
\* GameServer.clients or FrameManager.clients has sent client_ready.
C37_ParticipantsWereReady ==
  frame_manager.game_started
  => \A c \in ConnectedIds \cup frame_manager.clients :
       c \in frame_manager.ready_clients

\* C38: once the start time is set, the frames executed and the accumulator
\* account for exactly the time between T0 and last_update_time, the
\* executor is not ahead of the clock, and before T0 no frame is executed.
C38_NeverAheadOfClock ==
  executor.game_start_time /= 0
  => /\ executor.current_frame * FrameInterval3 + executor.logic_accumulator
          = 3 * (executor.last_update_time - executor.game_start_time)
     /\ executor.logic_accumulator >= 0
     /\ executor.last_update_time <= Max(now, executor.game_start_time)
     /\ now < executor.game_start_time => executor.current_frame = 0
     /\ executor.current_frame > 0
        => executor.current_frame * 1000
             <= (now - executor.game_start_time) * LOGIC_TICK_RATE

C38_Witness ==
  /\ executor.current_frame > TURN_SIZE
  /\ executor.waiting_for_input
  /\ executor.logic_accumulator > FrameInterval3
  /\ executor.last_update_time = now

\* ------------------------------------------------------------- the welcome
\* C31: every connection whose handler runs was sent exactly one welcome,
\* carrying the client_id the server registered for it, before any other
\* message; the client ids of the connections open together are distinct.
C31_WelcomeFirst ==
  \A w \in WS :
    handler[w] \in {"welcome", "recv"}
    => /\ greeted[w].welcomes = 1
       /\ greeted[w].first = "welcome"
       /\ greeted[w].client_id = clients[w]
       /\ greeted[w].client_id = handler_id[w]
       /\ clients[w] /= NoClient
       /\ \A x \in WS \ {w} :
            handler[x] \in {"welcome", "recv"} => clients[x] /= clients[w]

\* a connection was sent game_start while its welcome send was suspended
C31_Witness ==
  \E w \in WS, x \in WS :
    /\ handler[w] = "welcome" /\ anchor[w] /= 0
    /\ handler[x] = "recv" /\ clients[x] /= clients[w]

\* ----------------------------------------------------------- room actions
\* One Room and its GameSession, driven by calls of their methods.
MaxPlayers == 3

LobbyClients == 1 .. MaxPlayers

RoomInit == Init /\ required_players = 1

\* Room.set_session(session)
SetSession ==
  /\ ~room.session
  /\ room' = Room_set_session(room, session).room
  /\ session' = Room_set_session(room, session).session
  /\ called' = [method |-> "set_session", client_id |-> NoClient]
  /\ UNCHANGED <<mainVars, netVars, simVars>>

\* Room.add_client(c)
AddClient(c) ==
  /\ room' = Room_add_client(room, session, c).room
  /\ session' = Room_add_client(room, session, c).session
  /\ called' = [method |-> "add_client", client_id |-> c]
  /\ UNCHANGED <<mainVars, netVars, simVars>>

\* Room.remove_client(c)
RemoveClient(c) ==
  /\ room' = Room_remove_client(room, session, c).room
  /\ session' = Room_remove_client(room, session, c).session
  /\ called' = [method |-> "remove_client", client_id |-> c]
  /\ UNCHANGED <<mainVars, netVars, simVars>>

\* GameSession.set_player_ready(c, ready)
SetPlayerReady(c, ready) ==
  /\ room' = GameSession_set_player_ready(room, session, c, ready).room
  /\ session' = GameSession_set_player_ready(room, session, c, ready).session
  /\ called' = [method |-> "set_player_ready", client_id |-> c]
  /\ UNCHANGED <<mainVars, netVars, simVars>>

\* Room.end_game()
EndGame ==
  /\ room' = Room_end_game(room, session).room
  /\ session' = Room_end_game(room, session).session
  /\ called' = [method |-> "end_game", client_id |-> NoClient]
  /\ UNCHANGED <<mainVars, netVars, simVars>>

\* GameSession.reset()
ResetSession ==
  /\ session' = GameSession_reset(session)
  /\ called' = [method |-> "reset", client_id |-> NoClient]
  /\ UNCHANGED <<mainVars, netVars, simVars, room>>

RoomNext ==
  \/ SetSession
  \/ \E c \in LobbyClients : AddClient(c)
  \/ \E c \in LobbyClients : RemoveClient(c)
  \/ \E c \in LobbyClients, ready \in BOOLEAN : SetPlayerReady(c, ready)
  \/ EndGame
  \/ ResetSession

RoomSpec == RoomInit /\ [][RoomNext]_vars

\* C39 (as claimed): a set_player_ready call after which every player of
\* the session is ready, made while the room with its session is waiting,
\* leaves the room and the session running.
C39_AllReadyStarts ==
  [][(/\ called'.method = "set_player_ready"
      /\ <<room, session, called>>' /= <<room, session, called>>
      /\ room.session
      /\ room.status = "waiting"
      /\ called'.client_id \in DOMAIN session.players
      /\ \A c \in DOMAIN session'.players : session'.players[c].ready)
     => /\ room'.status = "running"
        /\ session'.status = "running"]_vars

\* C40 (as claimed): the players of a session have pairwise different
\* indexes.
C40_IndexesDistinct ==
  \A a \in DOMAIN session.players, b \in DOMAIN session.players :
    a /= b => session.players[a].index /= session.players[b].index

\* --------------------------------------------------------- stream actions
\* A NetworkClient's messages read by NetworkServer._handle_client, and the
\* same byte stream read by NetworkClient._receive_loop. The stream may end
\* anywhere; connect() sends the connect message first.
MaxMessages == 2

RECURSIVE MessageLists(_)
MessageLists(n) ==
  IF n = 0 THEN {<<>>}
  ELSE MessageLists(n - 1)
       \cup {Append(q, m) : q \in {x \in MessageLists(n - 1) : Len(x) = n - 1},
                            m \in Messages}

Streams ==
  {[sent |-> <<ConnectMessage>> \o q, cut |-> k] :
     q \in MessageLists(MaxMessages),
     k \in 0 .. (5 + 6 * MaxMessages)}

StreamInit ==
  /\ CoreInit
  /\ required_players = 1
  /\ inputs_lists = <<<<>>, <<>>>>
  /\ logical_inputs = NoTables
  /\ stream \in {st \in Streams : st.cut <= Len(PackAll(st.sent))}
  /\ server_reader = NewServerReader
  /\ client_reader = NewClientReader
  /\ runs = [r \in Runs |-> NewRun(1)]
  /\ clocks = [r \in Runs |-> 0]

\* client_socket.recv(4096) returns the next n bytes of the stream
ServerRecv(n) ==
  /\ ~server_reader.closed
  /\ n <= Len(Wire(stream)) - server_reader.pos
  /\ server_reader' =
       ServerLoop([server_reader EXCEPT
                     !.buffer = @ \o SubSeq(Wire(stream), server_reader.pos + 1,
                                            server_reader.pos + n),
                     !.pos = @ + n])
  /\ UNCHANGED <<mainVars, lobbyVars, simVars, stream, client_reader>>

\* the stream has ended: recv returns b'', the handler raises and closes
ServerEof ==
  /\ ~server_reader.closed
  /\ server_reader.pos = Len(Wire(stream))
  /\ server_reader' = [server_reader EXCEPT
                         !.closed = TRUE,
                         !.error = "Connection closed by client"]
  /\ UNCHANGED <<mainVars, lobbyVars, simVars, stream, client_reader>>

\* self.socket.recv(remaining) returns the next n bytes of the stream
ClientRecv(n) ==
  /\ client_reader.connected
  /\ n <= client_reader.remaining
  /\ n <= Len(Wire(stream)) - client_reader.pos
  /\ LET c == [client_reader EXCEPT
                 !.data = @ \o SubSeq(Wire(stream), client_reader.pos + 1,
                                      client_reader.pos + n),
                 !.remaining = @ - n,
                 !.pos = @ + n]
     IN client_reader' = IF c.remaining = 0 THEN ClientGot(c) ELSE c
  /\ UNCHANGED <<mainVars, lobbyVars, simVars, stream, server_reader>>

\* socket.timeout in _receive_exactly: the loop tries again
ClientTimeout ==
  /\ client_reader.connected
  /\ UNCHANGED vars

\* the stream has ended: recv returns b'', _receive_exactly returns None
ClientEof ==
  /\ client_reader.connected
  /\ client_reader.pos = Len(Wire(stream))
  /\ client_reader' = [client_reader EXCEPT !.connected = FALSE]
  /\ UNCHANGED <<mainVars, lobbyVars, simVars, stream, server_reader>>

ChunkSizes == 1 .. (5 + 6 * MaxMessages)

StreamNext ==
  \/ \E n \in ChunkSizes : ServerRecv(n)
  \/ ServerEof
  \/ \E n \in ChunkSizes : ClientRecv(n)
  \/ ClientTimeout
  \/ ClientEof

StreamSpec == StreamInit /\ [][StreamNext]_vars

\* the messages of the stream that arrive whole, in the order sent
RECURSIVE WholeMessages(_, _)
WholeMessages(messages, n) ==
  IF messages = <<>> \/ Len(pack_message(Head(messages))) > n THEN <<>>
  ELSE <<Head(messages)>>
       \o WholeMessages(Tail(messages), n - Len(pack_message(Head(messages))))

MaxSimClock == 2200

SimClockSteps == {500, 1100}

TankHealths == {1, 2}

SimInit ==
  /\ CoreInit
  /\ required_players = 1
  /\ inputs_lists = <<<<>>, <<>>>>
  /\ logical_inputs = NoTables
  /\ stream = NoStream
  /\ server_reader = NewServerReader
  /\ client_reader = NewClientReader
  /\ \E health \in TankHealths, lifetime \in BulletLifetimes :
       runs = [r \in Runs |->
                 [tank |-> NewTank(health), bullet |-> NewBullet(0, lifetime)]]
  /\ clocks = [r \in Runs |-> 0]

\* time passes on the machine of run r
WallClock(r, d) ==
  /\ clocks[r] + d <= MaxSimClock
  /\ clocks' = [clocks EXCEPT ![r] = @ + d]
  /\ UNCHANGED <<mainVars, lobbyVars, netVars, runs>>

\* both runs execute the same frame
SimFrame ==
  /\ runs' = [r \in Runs |-> SimStep(runs[r], clocks[r])]
  /\ UNCHANGED <<mainVars, lobbyVars, netVars, clocks>>

SimNext ==
  \/ \E r \in Runs, d \in SimClockSteps : WallClock(r, d)
  \/ SimFrame

SimSpec == SimInit /\ [][SimNext]_vars

\* what the players see of a run: the active bullets, the destroyed tanks,
\* positions and health
Outcome(run) ==
  [active |-> run.bullet.active, x |-> run.bullet.x, y |-> run.bullet.y,
   health |-> run.tank.health, is_exploding |-> run.tank.is_exploding,
   is_destroyed |-> run.tank.is_destroyed]

\* C32 (as claimed): a frame executed in two runs that are in the same
\* state leaves them with the same active bullets and destroyed tanks,
\* whatever their wall clocks read.
C32_StepIsPure ==
  [][runs["a"] = runs["b"] => Outcome(runs'["a"]) = Outcome(runs'["b"])]_vars

====
